---- MODULE Spec2Model ----
(***************************************************************************)
(* Model of the image-analysis orchestration layer of SafeBite:            *)
(*   src/src/utils/gemini-api.ts  convertImageToBase64,                    *)
(*       callGeminiAPIForJSON, callGeminiAPIForStream, analyzeFoodPhoto,   *)
(*       analyzeIngredientsAllergens, analyzeMenuRecommendations,          *)
(*       smartAnalyzeImage                                                 *)
(*   src/src/utils/llm.ts         callGemini25Pro,                         *)
(*       callGemini25ProWithHistory, imageConversation                     *)
(*                                                                         *)
(* One behaviour is one invocation of an entry point.  Every action is the *)
(* synchronous code that runs between two awaits; the environment (image   *)
(* host, model endpoint) chooses every reply.  Text on the wire is a       *)
(* sequence of tokens: "\n", " ", the literal prefix "data: ", ":" (the    *)
(* start of an SSE comment), "[DONE]", JSON documents and non-JSON text.   *)
(***************************************************************************)
EXTENDS Integers, Sequences, FiniteSets, TLC

(* ------------------------------ bounds -------------------------------- *)

\* reads with data that one directly called streaming call may receive
MaxReads == 3

\* reads with data that the extraction stream of smartAnalyzeImage may receive
MaxExtractReads == 2

\* largest token budget (thinking.budget_tokens, maxTokens) a caller configures
MaxTokenBudget == 2

\* reads with data that a streaming call may receive where the read loop is
\* not the subject: with a reasoning budget configured, and in each of two
\* concurrent invocations
MaxShortReads == 1
MaxCallbackReads == 2

(* ------------------------------ tokens -------------------------------- *)

NL == "\n"
SP == " "
DataPrefix == "data: "
Colon == ":"
DoneToken == "[DONE]"
Garbage == "garbage"

\* JSON documents of the stream: {"choices":[{"delta":{"content":..},"finish_reason":..}]}
DeltaA == "{delta:a}"
DeltaB == "{delta:b}"
FinishOnly == "{finish}"
DeltaBFinish == "{delta:b,finish}"

JsonTokens == {DeltaA, DeltaB, FinishOnly, DeltaBFinish}

\* parsed.choices?.[0]?.delta?.content ("" when absent)
DeltaContent(tok) ==
  CASE tok = DeltaA -> "a"
    [] tok = DeltaB -> "b"
    [] tok = DeltaBFinish -> "b"
    [] OTHER -> ""

\* parsed.choices?.[0]?.finish_reason is truthy
HasFinishReason(tok) == tok \in {FinishOnly, DeltaBFinish}

(* --------------------------- the wire --------------------------------- *)

\* the lines a response is made of (without their newline)
Lines ==
  { <<>>,
    <<Colon>>,
    <<DeltaA>>,
    <<DataPrefix, DeltaA>>,
    <<DataPrefix, DeltaB>>,
    <<DataPrefix, FinishOnly>>,
    <<DataPrefix, DeltaBFinish>>,
    <<DataPrefix, Garbage>>,
    <<SP, DataPrefix, DoneToken, SP>>,
    <<DataPrefix, DoneToken>> }

\* what one reader.read() may deliver: a whole line, a line that is cut
\* before its payload or before its newline, or two lines at once
Chunks ==
  { l \o <<NL>> : l \in Lines }
    \cup { <<DataPrefix>>, <<DataPrefix, DeltaB>> }
    \cup { <<DataPrefix, DoneToken, NL, DataPrefix, DeltaA, NL>>,
           <<DataPrefix, FinishOnly, NL, DataPrefix, DeltaA, NL>>,
           <<DataPrefix, DeltaA, NL, DataPrefix, Garbage, NL>>,
           <<DataPrefix, DeltaB, NL, DataPrefix, DoneToken, NL>> }

(* ------------------------ text operations ----------------------------- *)

\* String.prototype.split('\n') on a token sequence: always >= 1 element
RECURSIVE SplitNL(_, _, _)
SplitNL(s, cur, acc) ==
  IF s = <<>> THEN Append(acc, cur)
  ELSE IF Head(s) = NL THEN SplitNL(Tail(s), <<>>, Append(acc, cur))
  ELSE SplitNL(Tail(s), Append(cur, Head(s)), acc)

split(s) == SplitNL(s, <<>>, <<>>)

RECURSIVE TrimLeft(_)
TrimLeft(s) ==
  IF s # <<>> /\ Head(s) = SP THEN TrimLeft(Tail(s)) ELSE s

RECURSIVE TrimRight(_)
TrimRight(s) ==
  IF s # <<>> /\ s[Len(s)] = SP THEN TrimRight(SubSeq(s, 1, Len(s) - 1)) ELSE s

\* String.prototype.trim
trim(s) == TrimRight(TrimLeft(s))

\* trimmedLine.startsWith('data: '): the prefix ends in a blank, so a
\* trimmed line that is only the prefix has lost it
startsWithData(t) == Len(t) >= 2 /\ t[1] = DataPrefix

\* JSON.parse(data) succeeds: one document, blanks around it allowed
JSONparses(data) == Len(trim(data)) = 1 /\ trim(data)[1] \in JsonTokens

(* --------------------------- callbacks -------------------------------- *)

\* one callback invocation: which callback, its argument, and whether the
\* streaming call or the one-shot call made it
chunkEv(c) == [f |-> "onChunk", arg |-> c, by |-> "stream"]
completeEv == [f |-> "onComplete", arg |-> "", by |-> "stream"]
errorEv(by, e) == [f |-> "onError", arg |-> e, by |-> by]

\* the callbacks of the caller that throw when they are invoked
VARIABLE throwing

\* the error a throwing callback throws
CallbackError == "Error: thrown by the callback"

\* lines 692-694: onChunk(content) threw, and the statements after it in the
\* try block do not run
chunkThrew(tok) == DeltaContent(tok) # "" /\ "onChunk" \in throwing

\* lines 688-699: the callbacks the try block handling one parsed frame invokes
frameEvents(tok) ==
  (IF DeltaContent(tok) # "" THEN <<chunkEv(DeltaContent(tok))>> ELSE <<>>)
    \o (IF HasFinishReason(tok) /\ ~chunkThrew(tok) THEN <<completeEv>> ELSE <<>>)

\* lines 688-699: a callback invoked in the try block threw
frameThrew(tok) ==
  chunkThrew(tok) \/ (HasFinishReason(tok) /\ "onComplete" \in throwing)

innerCatch_Rethrows(threw) == threw

\* lines 700-702: catch (parseError) { console.warn(...) }: what is thrown
\* in the try block does not leave it
innerCatch(threw) == FALSE

processLine_ReadsBareLine(line) ==
  LET t == trim(line) IN
  IF t = <<>> \/ t[1] = Colon THEN [ev |-> <<>>, ret |-> FALSE, threw |-> FALSE]
  ELSE LET data == IF startsWithData(t) THEN Tail(t) ELSE t IN
    IF data = <<DoneToken>> THEN [ev |-> <<completeEv>>, ret |-> TRUE, threw |-> "onComplete" \in throwing]
    ELSE IF JSONparses(data) THEN [ev |-> frameEvents(trim(data)[1]), ret |-> FALSE,
          threw |-> innerCatch(frameThrew(trim(data)[1]))]
    ELSE [ev |-> <<>>, ret |-> FALSE, threw |-> FALSE]

processLine_AbortsOnBadFrame(line) ==
  LET t == trim(line) IN
  IF t = <<>> \/ t[1] = Colon THEN [ev |-> <<>>, ret |-> FALSE, threw |-> FALSE]
  ELSE IF startsWithData(t) THEN
    LET data == Tail(t) IN
    IF data = <<DoneToken>> THEN [ev |-> <<completeEv>>, ret |-> TRUE, threw |-> "onComplete" \in throwing]
    ELSE IF JSONparses(data) THEN [ev |-> frameEvents(trim(data)[1]), ret |-> FALSE,
          threw |-> innerCatch(frameThrew(trim(data)[1]))]
    ELSE [ev |-> <<>>, ret |-> TRUE, threw |-> FALSE]
  ELSE [ev |-> <<>>, ret |-> FALSE, threw |-> FALSE]

\* lines 673-703: one iteration of `for (const line of lines)`;
\* ret = TRUE is the `return` at the sentinel, threw = TRUE an exception that
\* leaves the loop (onComplete of line 684 is outside the inner try block)
processLine(line) ==
  LET t == trim(line) IN
  IF t = <<>> \/ t[1] = Colon THEN [ev |-> <<>>, ret |-> FALSE, threw |-> FALSE]
  ELSE IF startsWithData(t) THEN
    LET data == Tail(t) IN
    IF data = <<DoneToken>> THEN [ev |-> <<completeEv>>, ret |-> TRUE, threw |-> "onComplete" \in throwing]
    ELSE IF JSONparses(data) THEN [ev |-> frameEvents(trim(data)[1]), ret |-> FALSE,
          threw |-> innerCatch(frameThrew(trim(data)[1]))]
    ELSE [ev |-> <<>>, ret |-> FALSE, threw |-> FALSE]
  ELSE [ev |-> <<>>, ret |-> FALSE, threw |-> FALSE]

\* lines 673-704: the for loop over the complete lines of one read
RECURSIVE processLines(_, _)
processLines(lines, ev) ==
  IF lines = <<>> THEN [ev |-> ev, ret |-> FALSE, threw |-> FALSE]
  ELSE LET r == processLine(Head(lines)) IN
       IF r.ret \/ r.threw THEN [r EXCEPT !.ev = ev \o @]
       ELSE processLines(Tail(lines), ev \o r.ev)

processRead_ForgetsBuffer(buf, value) ==
  LET all == split(value)
      r == processLines(SubSeq(all, 1, Len(all) - 1), <<>>)
  IN [buffer |-> all[Len(all)], ev |-> r.ev, ret |-> r.ret, threw |-> r.threw]

\* lines 669-671: buffer += decode(value); lines = buffer.split('\n');
\* buffer = lines.pop() || ''
processRead(buf, value) ==
  LET all == split(buf \o value)
      r == processLines(SubSeq(all, 1, Len(all) - 1), <<>>)
  IN [buffer |-> all[Len(all)], ev |-> r.ev, ret |-> r.ret, threw |-> r.threw]

(* ------------------------- image references --------------------------- *)

\* an image reference is a sequence of tokens, like the wire text; the
\* tokens that the encoder and the validator look for are these
DataScheme == "data:"
HttpsScheme == "https://"
Base64Marker == ";base64"
CharsetParam == ";charset=utf-8"
Comma == ","
Dot == "."
QuestionMark == "?"
BlobObject == "Blob:"

\* the characters ';' and ',' end a media type: /^data:([^;,]+)/
Delimiters == {Base64Marker, CharsetParam, Comma}

\* the base64 text of the bytes of an image, and of an HTML error page
ImagePayloads == {"iVBORw0KGgo=", "R0lGODlhAQAB"}
ErrorPagePayload == "PGh0bWw+NDA0"

\* data: URIs
DataUrls ==
  { <<DataScheme, mime, Base64Marker, Comma, p>> :
      mime \in {"image/png", "image/jpeg", "image/webp", "image/bmp", "image/svg+xml"},
      p \in ImagePayloads }
  \cup { <<DataScheme, "image/png", CharsetParam, Base64Marker, Comma, p>> : p \in ImagePayloads }
  \cup { <<DataScheme, Base64Marker, Comma, p>> : p \in ImagePayloads }
  \cup { <<DataScheme, "image/svg+xml", Comma, "%3Csvg%3E", Comma, "%3C/svg%3E">> }

\* remote URLs: with and without an extension, with and without a query
RemoteUrls ==
  LET path == <<HttpsScheme, "cdn", Dot, "example/photo">>
      exts == { <<>> } \cup { <<Dot, e>> : e \in {"png", "JPG", "webp", "bmp", "tiff"} }
      queries == { <<>>, <<QuestionMark, "w=100">> }
  IN { path \o e \o q : e \in exts, q \in queries }

\* File and Blob objects (llm.ts): the type of the blob and its bytes
BlobTypes == {"image/png", "image/bmp", ""}
Blobs == { <<BlobObject, t, p>> : t \in BlobTypes, p \in ImagePayloads }

\* the reference the pipeline model runs on
DataPng == <<DataScheme, "image/png", Base64Marker, Comma, "iVBORw0KGgo=">>
RemotePng == <<HttpsScheme, "cdn", Dot, "example/photo", Dot, "png">>

\* string.startsWith(scheme)
startsWith(url, scheme) == url # <<>> /\ url[1] = scheme

\* the index of the first token of s that is in T, 0 if there is none
indexOfAny(s, T) ==
  IF \E i \in 1..Len(s) : s[i] \in T
    THEN CHOOSE i \in 1..Len(s) : s[i] \in T /\ \A j \in 1..(i - 1) : s[j] \notin T
    ELSE 0

\* the index of the last token of s that is t, 0 if there is none
lastIndexOf(s, t) ==
  IF \E i \in 1..Len(s) : s[i] = t
    THEN CHOOSE i \in 1..Len(s) : s[i] = t /\ \A j \in (i + 1)..Len(s) : s[j] # t
    ELSE 0

\* s.split(t)[0]
splitFirst(s, T) ==
  LET i == indexOfAny(s, T) IN IF i = 0 THEN s ELSE SubSeq(s, 1, i - 1)

\* s.split(t).pop()
splitPop(s, t) == SubSeq(s, lastIndexOf(s, t) + 1, Len(s))

\* the value undefined, and what a template literal prints for a value
undefined == <<"<undefined>">>
printed(value) == IF value = undefined THEN <<"undefined">> ELSE value

\* s.split(',')[1]: undefined when s has no comma
splitSecond(s, t) ==
  LET i == indexOfAny(s, {t})
  IN IF i = 0 THEN undefined ELSE splitFirst(SubSeq(s, i + 1, Len(s)), {t})

lowerToken(tok) ==
  CASE tok = "JPG" -> "jpg"
    [] tok = "PNG" -> "png"
    [] OTHER -> tok

\* string.toLowerCase()
toLowerCase(s) == [i \in 1..Len(s) |-> lowerToken(s[i])]

\* the table of getMimeTypeFromUrl, lines 133-141, and the default of line 143
mimeTypes(extension) ==
  CASE extension \in {<<"jpg">>, <<"jpeg">>} -> <<"image/jpeg">>
    [] extension = <<"png">> -> <<"image/png">>
    [] extension = <<"gif">> -> <<"image/gif">>
    [] extension = <<"webp">> -> <<"image/webp">>
    [] extension = <<"bmp">> -> <<"image/bmp">>
    [] extension = <<"svg">> -> <<"image/svg+xml">>
    [] OTHER -> <<"image/jpeg">>

\* getMimeTypeFromUrl, lines 124-144
getMimeTypeFromUrl(url) ==
  LET match == IF startsWith(url, DataScheme) THEN splitFirst(Tail(url), Delimiters) ELSE <<>>
  IN IF match # <<>>
       THEN match
       ELSE mimeTypes(splitFirst(toLowerCase(splitPop(url, Dot)), {QuestionMark}))

\* convertImageToBase64 lines 150-154: the branch of a data: URI
convertDataUrl(url) ==
  [base64 |-> splitSecond(url, Comma), mimeType |-> getMimeTypeFromUrl(url)]

\* `data:${mimeType};base64,${base64}`, lines 416-420 and 470
dataUrl(image) ==
  <<DataScheme>> \o printed(image.mimeType) \o <<Base64Marker, Comma>> \o printed(image.base64)

\* reader.readAsDataURL(blob), lines 168 and llm.ts 143: a blob without a type
\* is read as application/octet-stream
readAsDataURL(type, bytes) ==
  <<DataScheme, IF type = "" THEN "application/octet-stream" ELSE type,
    Base64Marker, Comma, bytes>>

\* the replies to fetch(url): the fetch is rejected, or it resolves with a
\* response (successful or not) whose body is a blob that the FileReader can
\* read or not
FetchReplies ==
  { [kind |-> "rejected", ok |-> FALSE, type |-> "", bytes |-> "", readable |-> FALSE] }
  \cup { [kind |-> "response", ok |-> TRUE, type |-> t, bytes |-> "iVBORw0KGgo=", readable |-> TRUE] :
           t \in {"image/png", ""} }
  \cup { [kind |-> "response", ok |-> FALSE, type |-> "text/html", bytes |-> ErrorPagePayload,
          readable |-> TRUE],
         [kind |-> "response", ok |-> TRUE, type |-> "image/png", bytes |-> "iVBORw0KGgo=",
          readable |-> FALSE] }

\* convertImageToBase64 lines 158-165: what the encoder resolves with
convertBlob(url, reply) ==
  [base64 |-> splitSecond(readAsDataURL(reply.type, reply.bytes), Comma),
   mimeType |-> IF reply.type # "" THEN <<reply.type>> ELSE getMimeTypeFromUrl(url)]

\* isValidImageFormat, llm.ts lines 163-176
isValidImageFormat(base64OrUrl) ==
  IF startsWith(base64OrUrl, DataScheme)
    THEN Len(base64OrUrl) >= 2
         /\ base64OrUrl[2] \in {"image/jpeg", "image/jpg", "image/png", "image/gif", "image/webp"}
    ELSE /\ startsWith(base64OrUrl, HttpsScheme)
         /\ toLowerCase(splitPop(base64OrUrl, Dot))
              \in {<<"jpg">>, <<"jpeg">>, <<"png">>, <<"gif">>, <<"webp">>}

(* ----------------------------- state ---------------------------------- *)

VARIABLES
  entry,      \* the function the caller invoked
  imageUrl,   \* the image reference the caller passed
  source,     \* imageUrl: "data" (a data: URI) or "remote" (any other URL)
  optApiKey,  \* options.apiKey is a non-empty string
  envApiKey,  \* import.meta.env.VITE_GEMINI_API_KEY is set
  thinking,   \* options.thinking: whether it is given, and its budget_tokens
  maxTokens,  \* options.maxTokens
  pc,         \* the await the invocation is suspended at
  encodes,    \* executions of convertImageToBase64 in this invocation
  net,        \* log of network operations: image fetches and endpoint requests
  typeResult, \* imageType of the classifier's reply, "none" before it
  replies,    \* log of the replies the one-shot calls received
  nReads,     \* reads with data the streaming call has received
  buffer,     \* `buffer` of the read loop
  received,   \* every token the read loop was handed so far
  cb,         \* log of callback invocations of the streaming/JSON calls
  text,       \* the chunks handed to onChunk (ingredientsText / menuText)
  analyzed,   \* the text the analyze-* prompt was built from
  thrown,     \* the error the failing call threw, "none" if none
  outcome,    \* how the invocation settled, NoOutcome while pending
  current,    \* which of two concurrent invocations is running (0: there is one)
  parked,     \* the local variables of the invocation that is not running
  conversationHistory, \* the caller's array of messages (imageConversation)
  imageSources,        \* the caller's array of image sources (imageConversation)
  messages,   \* the messages handed to the transport call
  encoded     \* log of the values the encoder resolved with

\* the conversation as it was when the caller passed it to imageConversation
VARIABLE passedHistory

inputs == <<entry, imageUrl, source, throwing, optApiKey, envApiKey, thinking, maxTokens,
            passedHistory>>
stream == <<nReads, buffer, received, text>>
others == <<current, parked, conversationHistory, imageSources>>
vars == <<entry, imageUrl, source, throwing, optApiKey, envApiKey, thinking, maxTokens, pc, encodes, net, typeResult, replies,
          nReads, buffer, received, cb, text, analyzed, thrown, outcome,
          current, parked, conversationHistory, imageSources, messages, encoded,
          passedHistory>>

StreamEntries == {"callGeminiAPIForStream", "callGemini25Pro", "callGemini25ProWithHistory"}
Entries == {"smartAnalyzeImage", "imageConversation"} \cup StreamEntries

NoOutcome == [settled |-> "pending"]

\* an optional field that is not there (errorMessage?: string)
Absent == "absent"

\* no analyze-* prompt was built
NoText == <<"none">>

\* a message: its role, and its content, which is a string (plain) or an
\* array of parts, each of type text or image_url
userText == [role |-> "user", plain |-> TRUE, parts |-> <<>>]
userParts(parts) == [role |-> "user", plain |-> FALSE, parts |-> parts]
assistantText == [role |-> "assistant", plain |-> TRUE, parts |-> <<>>]

\* the conversations and the image sources (strings) a caller of
\* imageConversation passes
Histories ==
  { <<>>,
    <<userText>>,
    <<userText, assistantText>>,
    <<userParts(<<"image_url">>)>>,
    <<assistantText, userParts(<<"text">>)>> }
ImageSources == { <<>>, <<"data:image/png">> }

\* options without a thinking configuration
NoThinking == [given |-> FALSE, budget_tokens |-> 0]

\* the thinking configurations and output budgets a caller passes; a caller
\* that passes no thinking configuration leaves maxTokens alone
Thinkings ==
  {NoThinking} \cup {[given |-> TRUE, budget_tokens |-> b] : b \in 0..MaxTokenBudget}

\* the streaming function that runs: smartAnalyzeImage extracts with
\* callGeminiAPIForStream, imageConversation calls callGemini25ProWithHistory
streamFn ==
  CASE entry = "smartAnalyzeImage" -> "callGeminiAPIForStream"
    [] entry \in {"imageConversation", "analyzeImage"} -> "callGemini25ProWithHistory"
    [] OTHER -> entry

\* the runs whose streams are kept short; the read loop is explored at full
\* length in the runs of one invocation on a data: URI whose credential is in
\* the options
shortRun ==
  \/ thinking.given \/ current # 0 \/ entry = "imageConversation"
  \/ envApiKey \/ source = "remote"

ReadBound ==
  IF throwing # {} THEN MaxCallbackReads
  ELSE IF shortRun THEN MaxShortReads
  ELSE IF entry = "smartAnalyzeImage" THEN MaxExtractReads ELSE MaxReads

sent(what) == [op |-> "send", what |-> what]
ended(what) == [op |-> "end", what |-> what]

\* requests of `what` sent so far
RECURSIVE countEv(_, _)
countEv(log, e) ==
  IF log = <<>> THEN 0
  ELSE (IF Head(log) = e THEN 1 ELSE 0) + countEv(Tail(log), e)

RECURSIVE countOp(_, _)
countOp(log, op) ==
  IF log = <<>> THEN 0
  ELSE (IF Head(log).op = op THEN 1 ELSE 0) + countOp(Tail(log), op)

\* network operations the invocation started and is still awaiting (a
\* streaming request counts until the streaming call returns or throws)
inflight == countOp(net, "send") - countOp(net, "end")

\* the callback invocations the streaming call made
streamCb == SelectSeq(cb, LAMBDA e : e.by = "stream")

RECURSIVE countCb(_, _)
countCb(log, f) ==
  IF log = <<>> THEN 0
  ELSE (IF Head(log).f = f THEN 1 ELSE 0) + countCb(Tail(log), f)

\* the requests sent to the chat-completions endpoint, in order
requests ==
  LET r == SelectSeq(net, LAMBDA e : e.op = "send" /\ e.what # "image")
  IN [i \in 1..Len(r) |-> r[i].what]

\* position of the first occurrence of e in log, 0 if there is none
firstIndex(log, e) ==
  IF \E i \in 1..Len(log) : log[i] = e
    THEN CHOOSE i \in 1..Len(log) : log[i] = e /\ \A j \in 1..(i - 1) : log[j] # e
    ELSE 0

chunksOf_Dropped(log) == <<>>

\* the chunk arguments of the onChunk invocations of a callback log, in order
RECURSIVE chunksOf(_)
chunksOf(log) ==
  IF log = <<>> THEN <<>>
  ELSE (IF Head(log).f = "onChunk" THEN <<Head(log).arg>> ELSE <<>>) \o chunksOf(Tail(log))

\* the local variables of an invocation of smartAnalyzeImage that has not
\* run yet
freshLocals ==
  [pc |-> "smart_start", encodes |-> 0, net |-> <<>>, typeResult |-> "none",
   replies |-> <<>>, nReads |-> 0, buffer |-> <<>>, received |-> <<>>, cb |-> <<>>,
   text |-> <<>>, analyzed |-> NoText, thrown |-> "none", outcome |-> NoOutcome,
   messages |-> <<>>, encoded |-> <<>>]

Init ==
  /\ current = 0
  /\ parked = freshLocals
  /\ entry \in Entries
  /\ throwing = {}
  /\ source \in {"data", "remote"}
  /\ imageUrl = (IF source = "data" THEN DataPng ELSE RemotePng)
  /\ optApiKey \in BOOLEAN
  /\ envApiKey \in BOOLEAN
  /\ entry # "smartAnalyzeImage" => source = "data"
  /\ thinking \in Thinkings
  /\ maxTokens \in 0..MaxTokenBudget
  /\ ~thinking.given => maxTokens = MaxTokenBudget
  /\ entry \notin StreamEntries => ~thinking.given
  /\ conversationHistory \in Histories
  /\ passedHistory = conversationHistory
  /\ imageSources \in ImageSources
  /\ entry # "imageConversation" => (conversationHistory = <<>> /\ imageSources = <<>>)
  /\ messages = (IF entry \in StreamEntries THEN <<userText>> ELSE <<>>)
  /\ pc = CASE entry = "smartAnalyzeImage" -> "smart_start"
            [] entry = "imageConversation" -> "conversation_start"
            [] OTHER -> "stream_call"
  /\ encodes = 0
  /\ net = <<>>
  /\ typeResult = "none"
  /\ replies = <<>>
  /\ nReads = 0
  /\ buffer = <<>>
  /\ received = <<>>
  /\ cb = <<>>
  /\ text = <<>>
  /\ analyzed = NoText
  /\ thrown = "none"
  /\ outcome = NoOutcome
  /\ encoded = <<>>

(* ------------------------- settling the promise ------------------------ *)

rethrow_Wrapped(error) == "Smart analysis failed"

\* smartAnalyzeImage lines 594-597: catch (error) { ...; throw error }
rethrow(error) == error

rejected(error) == [settled |-> "rejected", error |-> error]

resolved(imageType, confidence, result, errorMessage) ==
  [settled |-> "resolved", imageType |-> imageType, confidence |-> confidence,
   result |-> result, errorMessage |-> errorMessage]

\* a call inside the try block of smartAnalyzeImage (or the entry itself) threw
Throw(error) ==
  /\ thrown' = error
  /\ outcome' = rejected(IF entry = "smartAnalyzeImage" THEN rethrow(error) ELSE error)
  /\ pc' = "failed"

(* ----------------------------- Encoder --------------------------------- *)

fetchesImage_Always(url) == TRUE

\* convertImageToBase64 line 150: every reference but a data: URI is fetched
fetchesImage(url) == ~startsWith(url, DataScheme)

\* convertImageToBase64 lines 149-157, up to the await of fetch(url); called
\* by smartAnalyzeImage line 459 and by analyzeFoodPhoto line 405
convertImageToBase64 ==
  /\ entry = "smartAnalyzeImage"
  /\ pc \in {"smart_start", "food_encode"}
  /\ encodes' = encodes + 1
  /\ IF ~fetchesImage(imageUrl)
       THEN /\ pc' = (IF pc = "smart_start" THEN "classify_call" ELSE "analyze_call")
            /\ encoded' = Append(encoded, convertDataUrl(imageUrl))
            /\ net' = net
       ELSE /\ pc' = (IF pc = "smart_start" THEN "encode_fetch" ELSE "food_fetch")
            /\ net' = Append(net, sent("image"))
            /\ UNCHANGED encoded
  /\ UNCHANGED <<inputs, others, messages, typeResult, replies, stream, cb, analyzed, thrown, outcome>>

\* the replies to the image fetch that a run is continued with: all of them,
\* or a rejection and one successful response in the runs that are kept short
fetchReplies ==
  IF current # 0 \/ thinking.given
    THEN {r \in FetchReplies : r.kind = "rejected" \/ (r.ok /\ r.readable /\ r.type # "")}
    ELSE FetchReplies

\* convertImageToBase64 lines 157-173: the fetch settles
imageFetched ==
  /\ pc \in {"encode_fetch", "food_fetch"}
  /\ net' = Append(net, ended("image"))
  /\ \E reply \in fetchReplies :
       CASE reply.kind = "rejected" ->
              \* line 172; the call of line 459 is outside the try block
              /\ thrown' = "ImageLoadError"
              /\ outcome' = rejected(IF pc = "food_fetch" THEN rethrow("ImageLoadError")
                                     ELSE "ImageLoadError")
              /\ pc' = "failed"
              /\ UNCHANGED encoded
         [] reply.kind = "response" /\ ~reply.readable ->
              \* line 167: the promise of line 161 is returned, not awaited, so
              \* the catch of line 170 does not see its rejection
              /\ thrown' = "ProgressEvent"
              /\ outcome' = rejected(IF pc = "food_fetch" THEN rethrow("ProgressEvent")
                                     ELSE "ProgressEvent")
              /\ pc' = "failed"
              /\ UNCHANGED encoded
         [] OTHER ->
              \* lines 158-165: response.ok is not read
              /\ pc' = (IF pc = "encode_fetch" THEN "classify_call" ELSE "analyze_call")
              /\ encoded' = Append(encoded, convertBlob(imageUrl, reply))
              /\ UNCHANGED <<thrown, outcome>>
  /\ UNCHANGED <<inputs, others, messages, encodes, typeResult, replies, stream, cb, analyzed>>

(* ------------------------ Transport: one-shot -------------------------- *)

apiKey_Unchecked(fn) == TRUE

\* line 191 / 614: optApiKey || env.VITE_GEMINI_API_KEY; llm.ts lines 383, 548: apiKey
apiKey(fn) ==
  IF fn \in {"callGeminiAPIForJSON", "callGeminiAPIForStream"}
    THEN optApiKey \/ envApiKey
    ELSE optApiKey

\* replies of the endpoint that make callGeminiAPIForJSON throw inside its try
\* block (lines 207-244), with the error it throws
JsonFailures ==
  { "fetchRejected", "httpStatus", "httpProviderMessage", "bodyNotJson",
    "noContent", "emptyContent", "contentNotJson" }

jsonError_Conflated(reply) ==
  CASE reply = "fetchRejected" -> "TypeError: Failed to fetch"
    [] reply = "httpStatus" -> "API request failed: <status> <statusText>"
    [] reply = "httpProviderMessage" -> "<errorData.error.message>"
    [] reply = "bodyNotJson" -> "SyntaxError: response.json()"
    [] OTHER -> "No content in API response"

\* line 234: `!content` holds of a missing content and of the empty string
jsonError(reply) ==
  CASE reply = "fetchRejected" -> "TypeError: Failed to fetch"
    [] reply = "httpStatus" -> "API request failed: <status> <statusText>"
    [] reply = "httpProviderMessage" -> "<errorData.error.message>"
    [] reply = "bodyNotJson" -> "SyntaxError: response.json()"
    [] reply \in {"noContent", "emptyContent"} -> "No content in API response"
    [] reply = "contentNotJson" -> "API response is not valid JSON"

\* JSON.parse(content) of a classification reply: an object whose imageType is
\* one of the four types, an object with any other or no imageType, or null
ClassifyValues == {"ingredients", "menu", "food", "unknown", "other", "null"}

\* typeResult.confidence and typeResult.reason of a classification reply
Confidences == {"0.3", "0.9"}
Reasons == {"blurry", "no food"}

\* one entry of the reply log: the call's stage, how the reply fared (a member
\* of JsonFailures or "ok"), and of an "ok" reply the parsed value: imageType,
\* confidence and reason of a classification, the value of an analysis
failedReply(stage, reply) ==
  [stage |-> stage, kind |-> reply, value |-> "", confidence |-> "", reason |-> ""]
okReply(stage, value, confidence, reason) ==
  [stage |-> stage, kind |-> "ok", value |-> value, confidence |-> confidence,
   reason |-> reason]

\* the classification replies; typeResult.reason is read in the default case
\* only (line 585), so the replies of the other cases come with one reason;
\* the JSON value null has no fields
ClassifyReplies ==
  { okReply("classify", t, c, r) :
      t \in {"unknown", "other"}, c \in Confidences, r \in Reasons }
    \cup { okReply("classify", t, c, "a label") :
             t \in {"ingredients", "menu", "food"}, c \in Confidences }
    \cup { okReply("classify", "null", "", "") }

\* JSON.parse(content) of an analyze reply: an object, or the JSON value null
AnalyzeValues == {"object", "null"}

stageOf(p) ==
  CASE p \in {"classify_call", "classify_wait"} -> "classify"
    [] p \in {"analyze_call", "analyze_wait"} -> "analyze"
    [] OTHER -> "extract"

\* the prompt builder that runs at a call of the one-shot transport, and the
\* one that runs at the call of the extraction stream
jsonBuilder ==
  CASE pc = "classify_call" -> "classify"
    [] typeResult = "ingredients" -> "analyze-ingredients"
    [] typeResult = "menu" -> "analyze-menu"
    [] OTHER -> "analyze-food-photo"

streamBuilder ==
  IF typeResult = "menu" THEN "extract-menu-text" ELSE "extract-ingredients-text"

\* image_url.detail: options.detail || 'auto' (line 473), 'high' (lines 509
\* and 551), options.detail || 'high' (line 420), for options without detail
detailOf(builder) == IF builder = "classify" THEN "auto" ELSE "high"

imageMessages_Numbered(builder, image) ==
  <<[role |-> "user", plain |-> FALSE, parts |-> <<"text", "image_url">>,
     builder |-> builder, text |-> <<>>,
     url |-> dataUrl(image) \o (IF current = 2 THEN <<"#2">> ELSE <<>>),
     detail |-> detailOf(builder)]>>

\* the messages of the classification, extraction and food-photo requests
\* (lines 461-478, 497-513, 539-555, 407-424): one user message, the text of
\* the builder's prompt and the encoded image as a data: URI
imageMessages(builder, image) ==
  <<[role |-> "user", plain |-> FALSE, parts |-> <<"text", "image_url">>,
     builder |-> builder, text |-> <<>>, url |-> dataUrl(image),
     detail |-> detailOf(builder)]>>

\* the messages of analyzeIngredientsAllergens and analyzeMenuRecommendations
\* (lines 261-302, 314-357): one user message whose content is the prompt,
\* which quotes the extracted text
promptMessages(builder, extracted) ==
  <<[role |-> "user", plain |-> TRUE, parts |-> <<>>,
     builder |-> builder, text |-> extracted, url |-> <<>>, detail |-> ""]>>

awaitStream_Missing ==
  IF entry = "smartAnalyzeImage" THEN "analyze_call" ELSE "stream_wait"

\* the await of the streaming call, smartAnalyzeImage lines 517 and 559
awaitStream == "stream_wait"

\* callGeminiAPIForJSON lines 179-215: credential check, then the request
callGeminiAPIForJSON ==
  /\ pc \in {"classify_call", "analyze_call"}
  /\ IF ~apiKey("callGeminiAPIForJSON")
       THEN /\ Throw("API key is required")
            /\ UNCHANGED <<net, analyzed>>
       ELSE /\ net' = Append(net, sent(stageOf(pc)))
            /\ pc' = (IF pc = "classify_call" THEN "classify_wait" ELSE "analyze_wait")
            /\ analyzed' = (IF pc = "analyze_call" /\ typeResult # "food" THEN text ELSE analyzed)
            /\ UNCHANGED <<thrown, outcome>>
  /\ messages' = (IF pc = "analyze_call" /\ typeResult # "food"
                    THEN promptMessages(jsonBuilder, text)
                    ELSE imageMessages(jsonBuilder, encoded[Len(encoded)]))
  /\ UNCHANGED <<inputs, others, encodes, encoded, typeResult, replies, stream, cb>>

caseOf_UnknownFallsThrough(value) ==
  CASE value \in {"ingredients", "menu"} -> "extract"
    [] value \in {"food", "unknown"} -> "photo"
    [] value = "null" -> "throw"
    [] OTHER -> "default"

caseOf_FoodExtracts(value) ==
  CASE value \in {"ingredients", "menu", "food"} -> "extract"
    [] value = "null" -> "throw"
    [] OTHER -> "default"

\* smartAnalyzeImage lines 492-586: the case of `switch (typeResult.imageType)`
\* that runs; reading imageType of null throws
caseOf(value) ==
  CASE value \in {"ingredients", "menu"} -> "extract"
    [] value = "food" -> "photo"
    [] value = "null" -> "throw"
    [] OTHER -> "default"

errorMessageOf_Fixed(reason) == "cannot recognise the image type"

\* line 585: the template literal `无法识别图片类型。${typeResult.reason}`
errorMessageOf(reason) ==
  CASE reason = "blurry" -> "cannot recognise the image type. blurry"
    [] reason = "no food" -> "cannot recognise the image type. no food"

confidenceOf_Rounded(reply) == "1"

\* lines 582 and 591: confidence: typeResult.confidence
confidenceOf(reply) == reply.confidence

defaultImageType_Echoes(value) == value

\* line 581: the default case answers imageType: 'unknown', whatever
\* typeResult.imageType was
defaultImageType(value) == "unknown"

\* the parsed reply of the classification call: the first entry of the log
typeResultReply == replies[1]

\* smartAnalyzeImage lines 487-593: the classifier's reply was parsed
classified(reply) ==
  /\ typeResult' = reply.value
  /\ CASE caseOf(reply.value) = "extract" ->
            /\ pc' = "stream_call"
            /\ UNCHANGED <<thrown, outcome>>
       [] caseOf(reply.value) = "photo" ->
            /\ pc' = "food_encode"
            /\ UNCHANGED <<thrown, outcome>>
       [] caseOf(reply.value) = "throw" ->
            Throw("TypeError: typeResult is null")
       [] OTHER ->
            /\ pc' = "done"
            /\ outcome' = resolved(defaultImageType(reply.value), confidenceOf(reply),
                                   "null", errorMessageOf(reply.reason))
            /\ UNCHANGED thrown

\* smartAnalyzeImage lines 589-593
analysed(value) ==
  /\ pc' = "done"
  /\ outcome' = resolved(typeResult, confidenceOf(typeResultReply), value, Absent)
  /\ UNCHANGED <<typeResult, thrown>>

\* callGeminiAPIForJSON lines 208-249: the reply arrives
jsonReplied ==
  /\ pc \in {"classify_wait", "analyze_wait"}
  /\ net' = Append(net, ended(stageOf(pc)))
  /\ \/ \E reply \in JsonFailures :
          /\ replies' = Append(replies, failedReply(stageOf(pc), reply))
          /\ cb' = Append(cb, errorEv("json", jsonError(reply)))
          /\ Throw(jsonError(reply))
          /\ UNCHANGED typeResult
     \/ /\ pc = "classify_wait"
        /\ \E reply \in ClassifyReplies :
             /\ replies' = Append(replies, reply)
             /\ classified(reply)
        /\ cb' = cb
     \/ /\ pc = "analyze_wait"
        /\ \E value \in AnalyzeValues :
             /\ replies' = Append(replies, okReply("analyze", value, "", ""))
             /\ analysed(value)
        /\ cb' = cb
  /\ UNCHANGED <<inputs, others, messages, encodes, encoded, stream, analyzed>>

(* ------------------------ Transport: streaming ------------------------- *)

\* llm.ts line 328: lastMessage && lastMessage.role === 'user'
lastIsUser(history) == history # <<>> /\ history[Len(history)].role = "user"

\* llm.ts lines 329-350: the content of the last message as an array of
\* parts, followed by one image part per image source
withImages(message, sources) ==
  [message EXCEPT
     !.plain = FALSE,
     !.parts = (IF message.plain THEN <<"text">> ELSE message.parts)
                 \o [i \in 1..Len(sources) |-> "image_url"]]

\* imageConversation, llm.ts lines 310-356, for image sources that are
\* strings: `messages` is a copy of the array, not of the messages, so the
\* assignment of line 352 changes the caller's last message too
imageConversation ==
  /\ pc = "conversation_start"
  /\ IF lastIsUser(conversationHistory)
       THEN /\ messages' = [conversationHistory EXCEPT ![Len(conversationHistory)] =
                             withImages(conversationHistory[Len(conversationHistory)],
                                        imageSources)]
            /\ conversationHistory' = messages'
       ELSE /\ messages' = conversationHistory
            /\ UNCHANGED conversationHistory
  /\ pc' = "stream_call"
  /\ UNCHANGED <<inputs, current, parked, imageSources, encodes, encoded, net, typeResult,
                 replies, stream, cb, analyzed, thrown, outcome>>

\* replies that make the streaming call throw before its read loop
\* (gemini-api.ts lines 630-656, llm.ts lines 428-458 and 588-616)
StreamFailures == {"fetchRejected", "httpStatus", "httpProviderMessage", "noBody"}

streamError(reply) ==
  CASE reply = "fetchRejected" -> "TypeError: Failed to fetch"
    [] reply = "httpStatus" -> "API request failed: <status> <statusText>"
    [] reply = "httpProviderMessage" ->
         IF streamFn = "callGeminiAPIForStream"
           THEN "<errorData.error.message>"
           ELSE "API request failed: <status> <statusText>. <errorData.error.message>"
    [] reply = "noBody" -> "Response body is not readable"

streamReturned_Hangs ==
  /\ pc' = "stream_hung"
  /\ UNCHANGED outcome

\* the streaming call returned: smartAnalyzeImage goes on to lines 526 / 568,
\* a direct caller's promise resolves
streamReturned ==
  IF entry = "smartAnalyzeImage"
    THEN /\ pc' = "analyze_call"
         /\ UNCHANGED outcome
    ELSE /\ pc' = "done"
         /\ outcome' = [settled |-> "resolved"]

\* the catch block of the streaming call: gemini-api.ts lines 706-710,
\* llm.ts lines 516-520 and 666-670
streamCatch(error) ==
  /\ cb' = Append(cb, errorEv("stream", error))
  /\ Throw(error)

\* llm.ts lines 396 and 561:
\*   thinking?.budget_tokens && thinking.budget_tokens >= maxTokens
\* (the options of the gemini-api.ts transports have no thinking field)
invalidTuning(fn) ==
  /\ fn \in {"callGemini25Pro", "callGemini25ProWithHistory"}
  /\ thinking.given
  /\ thinking.budget_tokens # 0
  /\ thinking.budget_tokens >= maxTokens

\* callGeminiAPIForStream lines 603-637, callGemini25Pro lines 369-435,
\* callGemini25ProWithHistory lines 530-595: the checks of the options, then
\* the request
callStream ==
  /\ pc = "stream_call"
  /\ messages' = (IF entry = "smartAnalyzeImage"
                    THEN imageMessages(streamBuilder, encoded[Len(encoded)])
                    ELSE messages)
  /\ IF ~apiKey(streamFn)
       THEN /\ Throw("API key is required")
            /\ net' = net
       ELSE IF streamFn = "callGemini25ProWithHistory" /\ messages = <<>>
       THEN \* llm.ts lines 552-554
            /\ Throw("Messages array must not be empty")
            /\ net' = net
       ELSE IF invalidTuning(streamFn)
       THEN /\ Throw("max_tokens must be greater than thinking.budget_tokens")
            /\ net' = net
       ELSE /\ net' = Append(net, sent("extract"))
            /\ pc' = awaitStream
            /\ UNCHANGED <<thrown, outcome>>
  /\ UNCHANGED <<inputs, others, encodes, encoded, typeResult, replies, stream, cb, analyzed>>

\* lines 630-659: the response head arrives
streamResponded ==
  /\ pc = "stream_wait"
  /\ \/ \E reply \in StreamFailures :
          /\ streamCatch(streamError(reply))
          /\ net' = Append(net, ended("extract"))
     \/ /\ pc' = "stream_read"
        /\ UNCHANGED <<net, cb, thrown, outcome>>
  /\ UNCHANGED <<inputs, others, messages, encodes, encoded, typeResult, replies, stream, analyzed>>

\* what a read may deliver in each of two concurrent invocations
PairChunks == { <<DataPrefix, DeltaA, NL>>, <<DataPrefix, DeltaB, NL>> }

\* lines 662-705: reader.read() resolves with data
readValue ==
  /\ pc = "stream_read"
  /\ nReads < ReadBound
  /\ \E value \in (IF current = 0 THEN Chunks ELSE PairChunks) :
       \E r \in {processRead(buffer, value)} :
         /\ nReads' = nReads + 1
         /\ received' = received \o value
         /\ buffer' = r.buffer
         /\ text' = text \o chunksOf(r.ev)
         /\ cb' = (IF r.threw THEN Append(cb \o r.ev, errorEv("stream", CallbackError))
                            ELSE cb \o r.ev)
         /\ CASE r.threw ->
                   \* lines 706-710: the outer catch
                   /\ Throw(CallbackError)
                   /\ net' = Append(net, ended("extract"))
              [] r.ret /\ ~r.threw ->
                   /\ streamReturned
                   /\ net' = Append(net, ended("extract"))
                   /\ UNCHANGED thrown
              [] OTHER -> UNCHANGED <<pc, outcome, net, thrown>>
  /\ UNCHANGED <<inputs, others, messages, encodes, encoded, typeResult, replies, analyzed>>

\* lines 662-667: reader.read() resolves with done
readDone ==
  /\ pc = "stream_read"
  /\ net' = Append(net, ended("extract"))
  /\ IF "onComplete" \in throwing
       THEN \* lines 706-710: the outer catch
            /\ cb' = cb \o <<completeEv, errorEv("stream", CallbackError)>>
            /\ Throw(CallbackError)
       ELSE /\ cb' = Append(cb, completeEv)
            /\ streamReturned
            /\ UNCHANGED thrown
  /\ UNCHANGED <<inputs, others, messages, encodes, encoded, typeResult, replies, stream, analyzed>>

readFailed_KeepsReading ==
  /\ pc = "stream_read"
  /\ cb' = Append(cb, errorEv("stream", "TypeError: network error"))
  /\ thrown' = "TypeError: network error"
  /\ UNCHANGED <<inputs, others, messages, pc, encodes, encoded, net, typeResult, replies, stream, analyzed, outcome>>

\* line 662: reader.read() rejects (the connection broke)
readFailed ==
  /\ pc = "stream_read"
  /\ streamCatch("TypeError: network error")
  /\ net' = Append(net, ended("extract"))
  /\ UNCHANGED <<inputs, others, messages, encodes, encoded, typeResult, replies, stream, analyzed>>

(* --------------------------- specification ----------------------------- *)

Next ==
  \/ convertImageToBase64
  \/ imageFetched
  \/ callGeminiAPIForJSON
  \/ jsonReplied
  \/ callStream
  \/ streamResponded
  \/ readValue
  \/ readDone
  \/ readFailed
  \/ imageConversation

Spec == Init /\ [][Next]_vars

(* ------------------- every request is answered ------------------------ *)

\* one invocation of smartAnalyzeImage on a remote image, with options that
\* hold a credential and a thinking configuration (which the transports of
\* gemini-api.ts do not read)
LiveInit ==
  /\ current = 0
  /\ parked = freshLocals
  /\ entry = "smartAnalyzeImage"
  /\ throwing = {}
  /\ source = "remote"
  /\ imageUrl = RemotePng
  /\ optApiKey = TRUE
  /\ envApiKey = FALSE
  /\ thinking = [given |-> TRUE, budget_tokens |-> MaxTokenBudget]
  /\ maxTokens = MaxTokenBudget
  /\ pc = freshLocals.pc
  /\ encodes = freshLocals.encodes
  /\ net = freshLocals.net
  /\ typeResult = freshLocals.typeResult
  /\ replies = freshLocals.replies
  /\ nReads = freshLocals.nReads
  /\ buffer = freshLocals.buffer
  /\ received = freshLocals.received
  /\ cb = freshLocals.cb
  /\ text = freshLocals.text
  /\ analyzed = freshLocals.analyzed
  /\ thrown = freshLocals.thrown
  /\ outcome = freshLocals.outcome
  /\ messages = freshLocals.messages
  /\ encoded = freshLocals.encoded
  /\ conversationHistory = <<>>
  /\ passedHistory = conversationHistory
  /\ imageSources = <<>>

\* the event loop runs a continuation that is ready; every image fetch and
\* every request is answered, and every read of an open stream settles (with
\* data a bounded number of times, then with done or with a failure).  An
\* invocation waits for one thing at a time, so this is weak fairness of the
\* next-state relation
LiveNext ==
  \/ convertImageToBase64
  \/ imageFetched
  \/ callGeminiAPIForJSON
  \/ jsonReplied
  \/ callStream
  \/ streamResponded
  \/ readValue
  \/ readDone
  \/ readFailed

Fairness == WF_vars(LiveNext)

LiveSpec == LiveInit /\ [][LiveNext]_vars /\ Fairness

(* ---------------------- two concurrent invocations --------------------- *)

moduleLevel_Text == {"text"}

\* the variables of the model that the module declares outside its functions:
\* none; every `let` and `const` of gemini-api.ts is inside a function body,
\* so each invocation has its own
moduleLevel == {}

\* the local variables of the running invocation
locals ==
  [pc |-> pc, encodes |-> encodes, net |-> net, typeResult |-> typeResult,
   replies |-> replies, nReads |-> nReads, buffer |-> buffer, received |-> received,
   cb |-> cb, text |-> text, analyzed |-> analyzed, thrown |-> thrown,
   outcome |-> outcome, messages |-> messages, encoded |-> encoded]

\* the event loop leaves the running invocation at an await and resumes the
\* other one: the running one's locals are kept, the other's are restored;
\* a variable declared at module level is the same for both
switchInvocation ==
  /\ current # 0
  /\ current' = 3 - current
  /\ parked' = locals
  /\ pc' = parked.pc
  /\ encodes' = parked.encodes
  /\ net' = parked.net
  /\ typeResult' = parked.typeResult
  /\ replies' = parked.replies
  /\ nReads' = parked.nReads
  /\ buffer' = parked.buffer
  /\ received' = parked.received
  /\ cb' = parked.cb
  /\ text' = (IF "text" \in moduleLevel THEN text ELSE parked.text)
  /\ analyzed' = parked.analyzed
  /\ thrown' = parked.thrown
  /\ outcome' = parked.outcome
  /\ messages' = parked.messages
  /\ encoded' = parked.encoded
  /\ UNCHANGED <<inputs, conversationHistory, imageSources>>

\* two invocations of smartAnalyzeImage on the same remote image with the
\* same options, which hold a credential
PairInit ==
  /\ current = 1
  /\ parked = freshLocals
  /\ entry = "smartAnalyzeImage"
  /\ throwing = {}
  /\ source = "remote"
  /\ imageUrl = RemotePng
  /\ optApiKey = TRUE
  /\ envApiKey = FALSE
  /\ thinking = NoThinking
  /\ maxTokens = MaxTokenBudget
  /\ pc = freshLocals.pc
  /\ encodes = freshLocals.encodes
  /\ net = freshLocals.net
  /\ typeResult = freshLocals.typeResult
  /\ replies = freshLocals.replies
  /\ nReads = freshLocals.nReads
  /\ buffer = freshLocals.buffer
  /\ received = freshLocals.received
  /\ cb = freshLocals.cb
  /\ text = freshLocals.text
  /\ analyzed = freshLocals.analyzed
  /\ thrown = freshLocals.thrown
  /\ outcome = freshLocals.outcome
  /\ messages = freshLocals.messages
  /\ encoded = freshLocals.encoded
  /\ conversationHistory = <<>>
  /\ passedHistory = conversationHistory
  /\ imageSources = <<>>

PairNext ==
  \/ convertImageToBase64
  \/ imageFetched
  \/ callGeminiAPIForJSON
  \/ jsonReplied
  \/ callStream
  \/ streamResponded
  \/ readValue
  \/ readDone
  \/ readFailed
  \/ switchInvocation

PairSpec == PairInit /\ [][PairNext]_vars

(* --------------------- the encoder on every source --------------------- *)

\* a path that is neither a data: URI nor an absolute URL
RelativeUrls == { <<"photo", Dot, "png">> }

\* analyzeImage, llm.ts lines 210-236: the image URL is validated, and the
\* message with the prompt and the image is handed to the streaming call
imageValidated(url) ==
  IF isValidImageFormat(url)
    THEN /\ messages' = <<userParts(<<"text", "image_url">>)>>
         /\ pc' = "stream_call"
         /\ UNCHANGED <<thrown, outcome>>
    ELSE /\ Throw("Unsupported image format. Supported formats: JPEG, PNG, GIF, WebP")
         /\ UNCHANGED messages

\* analyzeImage, llm.ts lines 192-208, and lines 210-236 for a string
analyzeImage ==
  /\ entry = "analyzeImage"
  /\ pc = "image_start"
  /\ CASE startsWith(imageUrl, BlobObject) ->
            /\ pc' = "file_read"
            /\ UNCHANGED <<messages, thrown, outcome>>
       [] startsWith(imageUrl, HttpsScheme) \/ startsWith(imageUrl, DataScheme) ->
            imageValidated(imageUrl)
       [] OTHER ->
            /\ Throw("Invalid image source: must be a valid URL or base64 string")
            /\ UNCHANGED messages
  /\ UNCHANGED <<inputs, others, encodes, encoded, net, typeResult, replies, stream, cb, analyzed>>

\* fileToBase64, llm.ts lines 135-145, settles: the FileReader read the blob
\* (analyzeImage goes on with line 210) or failed
fileToBase64 ==
  /\ pc = "file_read"
  /\ \E readable \in BOOLEAN :
       IF readable
         THEN imageValidated(readAsDataURL(imageUrl[2], imageUrl[3]))
         ELSE /\ Throw("ProgressEvent")
              /\ UNCHANGED messages
  /\ UNCHANGED <<inputs, others, encodes, encoded, net, typeResult, replies, stream, cb, analyzed>>

\* one invocation of smartAnalyzeImage or of analyzeImage, with a credential
\* in the options, on each image reference
EncodeInit ==
  /\ current = 0
  /\ parked = freshLocals
  /\ entry \in {"smartAnalyzeImage", "analyzeImage"}
  /\ throwing = {}
  /\ imageUrl \in DataUrls \cup RemoteUrls \cup RelativeUrls \cup Blobs
  /\ startsWith(imageUrl, BlobObject) => entry = "analyzeImage"
  /\ source = (IF startsWith(imageUrl, DataScheme) THEN "data" ELSE "remote")
  /\ optApiKey = TRUE
  /\ envApiKey = FALSE
  /\ thinking = NoThinking
  /\ maxTokens = MaxTokenBudget
  /\ pc = (IF entry = "smartAnalyzeImage" THEN "smart_start" ELSE "image_start")
  /\ encodes = freshLocals.encodes
  /\ net = freshLocals.net
  /\ typeResult = freshLocals.typeResult
  /\ replies = freshLocals.replies
  /\ nReads = freshLocals.nReads
  /\ buffer = freshLocals.buffer
  /\ received = freshLocals.received
  /\ cb = freshLocals.cb
  /\ text = freshLocals.text
  /\ analyzed = freshLocals.analyzed
  /\ thrown = freshLocals.thrown
  /\ outcome = freshLocals.outcome
  /\ messages = freshLocals.messages
  /\ encoded = freshLocals.encoded
  /\ conversationHistory = <<>>
  /\ passedHistory = conversationHistory
  /\ imageSources = <<>>

\* the encoder, and the request that follows it
EncodeNext ==
  \/ convertImageToBase64
  \/ imageFetched
  \/ analyzeImage
  \/ fileToBase64
  \/ callGeminiAPIForJSON
  \/ callStream

EncodeSpec == EncodeInit /\ [][EncodeNext]_vars

(* ------------------------ callbacks that throw ------------------------- *)

\* one streaming call with a credential, whose onChunk, onComplete or both
\* throw when they are invoked
CallbackInit ==
  /\ current = 0
  /\ parked = freshLocals
  /\ entry \in {"callGeminiAPIForStream", "callGemini25ProWithHistory"}
  /\ throwing \in (SUBSET {"onChunk", "onComplete"}) \ {{}}
  /\ source = "data"
  /\ imageUrl = DataPng
  /\ optApiKey = TRUE
  /\ envApiKey = FALSE
  /\ thinking = NoThinking
  /\ maxTokens = MaxTokenBudget
  /\ pc = "stream_call"
  /\ encodes = freshLocals.encodes
  /\ net = freshLocals.net
  /\ typeResult = freshLocals.typeResult
  /\ replies = freshLocals.replies
  /\ nReads = freshLocals.nReads
  /\ buffer = freshLocals.buffer
  /\ received = freshLocals.received
  /\ cb = freshLocals.cb
  /\ text = freshLocals.text
  /\ analyzed = freshLocals.analyzed
  /\ thrown = freshLocals.thrown
  /\ outcome = freshLocals.outcome
  /\ messages = <<userText>>
  /\ encoded = freshLocals.encoded
  /\ conversationHistory = <<>>
  /\ passedHistory = conversationHistory
  /\ imageSources = <<>>

CallbackNext ==
  \/ callStream
  \/ streamResponded
  \/ readValue
  \/ readDone
  \/ readFailed

CallbackSpec == CallbackInit /\ [][CallbackNext]_vars

(* -------------------------- the analysis view -------------------------- *)

\* the view's refs isAnalyzing, analysisResult and errorMessage
\* (analysis-result.vue lines 24-26), and the notices ElMessage has shown
NoResult == [settled |-> "null"]

setupRefs ==
  [isAnalyzing |-> TRUE, analysisResult |-> NoResult, errorMessage |-> "",
   notices |-> <<>>]

\* onMounted lines 43-44: no image was given
notProvided(v) ==
  [v EXCEPT !.isAnalyzing = FALSE, !.errorMessage = "no image provided"]

\* performAnalysis lines 51-53
started(v) ==
  [v EXCEPT !.isAnalyzing = TRUE, !.analysisResult = NoResult, !.errorMessage = ""]

\* performAnalysis lines 56-61: VITE_DASHSCOPE_API_KEY is not configured
notConfigured(v) ==
  [v EXCEPT !.isAnalyzing = FALSE, !.errorMessage = "API key not configured",
            !.notices = Append(@, "error")]

\* the onError the view passes, lines 68-72
onError(v, error) ==
  [v EXCEPT !.errorMessage = error, !.notices = Append(@, "error")]

\* the onComplete the view passes, lines 73-78
onComplete(v) ==
  [v EXCEPT !.isAnalyzing = FALSE,
            !.notices = IF v.errorMessage = "" THEN Append(@, "success") ELSE @]

\* the refs after the callbacks of a log ran, in order; the view passes no
\* onChunk
RECURSIVE afterCallbacks(_, _)
afterCallbacks(v, log) ==
  IF log = <<>> THEN v
  ELSE afterCallbacks(CASE Head(log).f = "onError" -> onError(v, Head(log).arg)
                        [] Head(log).f = "onComplete" -> onComplete(v)
                        [] OTHER -> v,
                      Tail(log))

thenResult_ShowsAnyResult(v, result) ==
  [v EXCEPT !.analysisResult = result, !.isAnalyzing = FALSE]

\* performAnalysis lines 81-87: the promise of smartAnalyzeImage resolved
thenResult(v, result) ==
  LET w == [v EXCEPT !.analysisResult = result, !.isAnalyzing = FALSE]
  IN IF result.imageType = "unknown" \/ result.result = "null"
       THEN [w EXCEPT !.errorMessage = (IF result.errorMessage # Absent
                                          THEN result.errorMessage
                                          ELSE "cannot recognise the image type"),
                      !.notices = Append(@, "warning")]
       ELSE w

\* line 91: error instanceof Error ? error.message : '分析失败'; the
\* ProgressEvent of a FileReader is no Error
messageOf(error) == IF error = "ProgressEvent" THEN "analysis failed" ELSE error

\* performAnalysis lines 88-93: the promise of smartAnalyzeImage rejected
catchError(v, error) ==
  [v EXCEPT !.isAnalyzing = FALSE, !.errorMessage = messageOf(error),
            !.notices = Append(@, "error")]

\* the refs of the view: set up, then changed by onMounted, by the callbacks
\* smartAnalyzeImage invokes and by the rest of performAnalysis
view ==
  CASE pc = "view_mounted" -> setupRefs
    [] pc = "view_settled" /\ imageUrl = <<>> -> notProvided(setupRefs)
    [] pc = "view_settled" /\ ~optApiKey -> notConfigured(started(setupRefs))
    [] pc = "view_settled" /\ outcome.settled = "resolved" ->
         thenResult(afterCallbacks(started(setupRefs), cb), outcome)
    [] pc = "view_settled" ->
         catchError(afterCallbacks(started(setupRefs), cb), outcome.error)
    [] OTHER -> afterCallbacks(started(setupRefs), cb)

\* the view is mounted with an image (a data: URI or a remote reference) or
\* without one; optApiKey says whether VITE_DASHSCOPE_API_KEY is configured,
\* which the view passes as options.apiKey; it passes no thinking
\* configuration and its callbacks do not throw
ViewInit ==
  /\ current = 0
  /\ parked = freshLocals
  /\ entry = "smartAnalyzeImage"
  /\ throwing = {}
  /\ source \in {"data", "remote", "none"}
  /\ imageUrl = (CASE source = "data" -> DataPng
                   [] source = "remote" -> RemotePng
                   [] OTHER -> <<>>)
  /\ optApiKey \in BOOLEAN
  /\ envApiKey \in BOOLEAN
  /\ thinking = NoThinking
  /\ maxTokens = MaxTokenBudget
  /\ pc = "view_mounted"
  /\ encodes = freshLocals.encodes
  /\ net = freshLocals.net
  /\ typeResult = freshLocals.typeResult
  /\ replies = freshLocals.replies
  /\ nReads = freshLocals.nReads
  /\ buffer = freshLocals.buffer
  /\ received = freshLocals.received
  /\ cb = freshLocals.cb
  /\ text = freshLocals.text
  /\ analyzed = freshLocals.analyzed
  /\ thrown = freshLocals.thrown
  /\ outcome = freshLocals.outcome
  /\ messages = freshLocals.messages
  /\ encoded = freshLocals.encoded
  /\ conversationHistory = <<>>
  /\ passedHistory = conversationHistory
  /\ imageSources = <<>>

\* onMounted lines 40-45 and performAnalysis lines 48-62: without an image or
\* without the key the view is done, else smartAnalyzeImage is called
onMounted ==
  /\ pc = "view_mounted"
  /\ pc' = (IF imageUrl = <<>> \/ ~optApiKey THEN "view_settled" ELSE "smart_start")
  /\ UNCHANGED <<inputs, others, stream, encodes, encoded, net, typeResult, replies,
                 cb, analyzed, thrown, outcome, messages>>

\* performAnalysis lines 81-93: the promise of smartAnalyzeImage settled and
\* the view goes on after its await
performAnalysis ==
  /\ pc \in {"done", "failed"}
  /\ pc' = "view_settled"
  /\ UNCHANGED <<inputs, others, stream, encodes, encoded, net, typeResult, replies,
                 cb, analyzed, thrown, outcome, messages>>

ViewNext ==
  \/ onMounted
  \/ performAnalysis
  \/ convertImageToBase64
  \/ imageFetched
  \/ callGeminiAPIForJSON
  \/ jsonReplied
  \/ callStream
  \/ streamResponded
  \/ readValue
  \/ readDone
  \/ readFailed

ViewSpec == ViewInit /\ [][ViewNext]_vars

(* ------------------------------ claims --------------------------------- *)

\* the streaming call has returned without throwing
streamCallReturned ==
  /\ firstIndex(net, ended("extract")) > 0
  /\ countCb(streamCb, "onError") = 0

\* C1: a streaming call that processes its response without a hard error
\* invokes onComplete exactly once - never a second time, and once it has
\* returned, once.
C1_OnCompleteExactlyOnce ==
  /\ countCb(streamCb, "onComplete") <= 1
  /\ streamCallReturned => countCb(streamCb, "onComplete") = 1

\* C2: one smartAnalyzeImage invocation executes convertImageToBase64 at most
\* once and fetches a remote source at most once, whatever the classification.
C2_EncodedAtMostOnce ==
  entry = "smartAnalyzeImage" =>
    /\ encodes <= 1
    /\ countEv(net, sent("image")) <= 1

\* smartAnalyzeImage resolved
smartResolved == entry = "smartAnalyzeImage" /\ outcome.settled = "resolved"

\* C3 as stated: an image classified unknown costs exactly one network call in
\* total, the classification call, and resolves with result = null.
C3_OneNetworkCallInTotal ==
  (entry = "smartAnalyzeImage" /\ typeResult = "unknown") =>
    /\ countOp(net, "send") = 1
    /\ smartResolved /\ outcome.result = "null"

\* C3 (amended): an image classified unknown costs exactly one request to the
\* model endpoint, the classification call, and resolves with result = null;
\* the only other network operation is the Encoder's single fetch of a source
\* that is not a data: URI, made before the classification call.
C3_UnknownOneEndpointRequest ==
  (entry = "smartAnalyzeImage" /\ typeResult = "unknown") =>
    /\ requests = <<"classify">>
    /\ net = (IF source = "remote" THEN <<sent("image"), ended("image")>> ELSE <<>>)
               \o <<sent("classify"), ended("classify")>>
    /\ pc = "done"
    /\ smartResolved /\ outcome.imageType = "unknown" /\ outcome.result = "null"

C3_Witness ==
  /\ smartResolved /\ typeResult = "unknown" /\ source = "remote"
  /\ requests = <<"classify">>

\* C4: a successful smartAnalyzeImage invocation sends, after the
\* classification request, one streaming request followed by one analyze
\* request when the type is ingredients or menu, and one analyze request and
\* no streaming request when the type is food.
C4_StageSequence ==
  smartResolved =>
    /\ typeResult \in {"ingredients", "menu"} =>
         requests = <<"classify", "extract", "analyze">>
    /\ typeResult = "food" => requests = <<"classify", "analyze">>

C4_Witness ==
  /\ smartResolved /\ typeResult = "ingredients"
  /\ text # <<>> /\ analyzed = text

\* C5: a streaming call invokes onError at most once, and no onChunk
\* invocation follows an onError invocation.
C5_ErrorOnceThenSilence ==
  /\ countCb(streamCb, "onError") <= 1
  /\ \A i, j \in 1..Len(streamCb) :
       (i < j /\ streamCb[i].f = "onError") => streamCb[j].f # "onChunk"

C5_Witness ==
  /\ Len(streamCb) >= 2
  /\ streamCb[1].f = "onChunk"
  /\ streamCb[Len(streamCb)].f = "onError"
  /\ pc = "failed"

\* C6: a SmartAnalysisResult whose imageType is not unknown has exactly one of
\* a non-null result and an errorMessage.
C6_ResultXorErrorMessage ==
  (smartResolved /\ outcome.imageType # "unknown") =>
    ((outcome.result # "null") # (outcome.errorMessage # Absent))

\* a transport call of smartAnalyzeImage threw
transportFailed ==
  /\ entry = "smartAnalyzeImage" /\ pc = "failed"
  /\ thrown \notin {"none", "ImageLoadError", "ProgressEvent", "TypeError: typeResult is null"}

\* C7: when the transport call of a stage fails, smartAnalyzeImage rejects
\* with the very error that call threw, no request was sent twice, and no
\* request is pending or sent afterwards.
C7_FailurePropagatesUntouched ==
  transportFailed =>
    /\ outcome = rejected(thrown)
    /\ \A w \in {"classify", "extract", "analyze"} : countEv(net, sent(w)) <= 1
    /\ inflight = 0
    /\ ~ ENABLED Next

C7_Witness ==
  /\ transportFailed
  /\ thrown = "TypeError: network error"
  /\ requests = <<"classify", "extract">>
  /\ text # <<>>

\* the consequence of a missing credential: no request to the endpoint, and
\* the call that checks the credential fails with the missing-key error
failsFastOnCredential ==
  /\ requests = <<>>
  /\ pc \in {"smart_start", "encode_fetch", "classify_call", "conversation_start",
            "stream_call", "failed"}
  /\ pc = "failed" =>
       /\ outcome.settled = "rejected"
       /\ thrown \in {"API key is required", "ImageLoadError", "ProgressEvent"}

\* C8 as stated: an empty options.apiKey makes both transports fail with the
\* missing-credential error before any request.
C8_EmptyApiKeyFailsFast == ~optApiKey => failsFastOnCredential

\* C8 (amended): both transports fail with the missing-credential error before
\* any request whenever no credential is available: options.apiKey is empty
\* and, for the transports of gemini-api.ts (callGeminiAPIForJSON,
\* callGeminiAPIForStream), VITE_GEMINI_API_KEY is not set either.
C8_NoCredentialFailsFast ==
  (~optApiKey /\ (streamFn = "callGeminiAPIForStream" => ~envApiKey))
    => failsFastOnCredential

C8_Witness ==
  /\ ~optApiKey /\ pc = "failed" /\ thrown = "API key is required"
  /\ entry = "callGemini25ProWithHistory" /\ envApiKey

\* C9: the stages of one smartAnalyzeImage invocation are sequential: at most
\* one network operation is pending, the extraction request is sent after the
\* classification reply, the analyze request after the streaming call ended.
C9_StagesSequential ==
  entry = "smartAnalyzeImage" =>
    /\ inflight <= 1
    /\ firstIndex(net, sent("extract")) > 0 =>
         /\ firstIndex(net, ended("classify")) > 0
         /\ firstIndex(net, ended("classify")) < firstIndex(net, sent("extract"))
    /\ firstIndex(net, sent("analyze")) > 0 =>
         /\ firstIndex(net, ended("classify")) > 0
         /\ firstIndex(net, ended("classify")) < firstIndex(net, sent("analyze"))
         /\ typeResult \in {"ingredients", "menu"} =>
              /\ firstIndex(net, ended("extract")) > firstIndex(net, sent("extract"))
              /\ firstIndex(net, ended("extract")) < firstIndex(net, sent("analyze"))

C9_Witness ==
  /\ entry = "smartAnalyzeImage" /\ pc = "analyze_wait"
  /\ typeResult = "menu" /\ source = "remote"
  /\ inflight = 1

\* the frame of a line: a trimmed line `data: <payload>`
isFrame(line) == startsWithData(trim(line))
payload(line) == Tail(trim(line))

\* the content deltas of the well-formed frames among `lines`, up to and
\* including the first termination signal (sentinel or finish_reason frame)
RECURSIVE contentUpToTermination(_)
contentUpToTermination(lines) ==
  IF lines = <<>> THEN <<>>
  ELSE LET l == Head(lines) IN
    IF isFrame(l) /\ payload(l) = <<DoneToken>> THEN <<>>
    ELSE IF isFrame(l) /\ JSONparses(payload(l)) THEN
      LET tok == trim(payload(l))[1]
          c == IF DeltaContent(tok) # "" THEN <<DeltaContent(tok)>> ELSE <<>>
      IN IF HasFinishReason(tok) THEN c ELSE c \o contentUpToTermination(Tail(lines))
    ELSE contentUpToTermination(Tail(lines))

\* the newline-delimited lines received so far (an unfinished last line is
\* not yet a frame)
linesReceived ==
  LET all == split(received) IN SubSeq(all, 1, Len(all) - 1)

\* C10: the chunks handed to onChunk, in order, are the content deltas of the
\* well-formed data: frames received up to the termination signal.
C10_ChunksAreFrameContents ==
  streamCallReturned => text = contentUpToTermination(linesReceived)

\* a data: frame whose payload is neither the sentinel nor a JSON document
isMalformedFrame(line) ==
  isFrame(line) /\ payload(line) # <<DoneToken>> /\ ~JSONparses(payload(line))

\* the content deltas of the well-formed frames among `lines` that precede
\* the sentinel, malformed frames passed over
RECURSIVE contentBeforeSentinel(_)
contentBeforeSentinel(lines) ==
  IF lines = <<>> THEN <<>>
  ELSE LET l == Head(lines) IN
    IF isFrame(l) /\ payload(l) = <<DoneToken>> THEN <<>>
    ELSE (IF isFrame(l) /\ JSONparses(payload(l)) /\ DeltaContent(trim(payload(l))[1]) # ""
            THEN <<DeltaContent(trim(payload(l))[1])>> ELSE <<>>)
           \o contentBeforeSentinel(Tail(lines))

malformedFrameReceived ==
  LET lines == linesReceived
  IN \E i \in 1..Len(lines) : isMalformedFrame(lines[i])

\* C11: a data: frame whose payload does not parse is a soft failure: it
\* raises no onError (the only error a reading call reports is a failed
\* read), it does not end the call (a call that returned ended with
\* onComplete), and the frames after it are processed like the frames before
\* it: the chunks delivered are the contents of all well-formed frames that
\* precede the sentinel.
C11_MalformedFrameSkipped ==
  malformedFrameReceived =>
    /\ \A i \in 1..Len(streamCb) :
         streamCb[i].f = "onError" => streamCb[i].arg = "TypeError: network error"
    /\ streamCallReturned =>
         (streamCb # <<>> /\ streamCb[Len(streamCb)].f = "onComplete")
    /\ text = contentBeforeSentinel(linesReceived)

C11_Witness ==
  /\ streamCallReturned
  /\ Len(linesReceived) >= 3
  /\ isMalformedFrame(linesReceived[2])
  /\ text = <<"a", "b">>

\* C12: a transport call configured with thinking.budget_tokens >= maxTokens
\* sends no request and fails, with the invalid-tuning error unless the
\* credential check failed first - for every pair of budgets, 0 included.
C12_InvalidTuningFailsFast ==
  (thinking.given /\ thinking.budget_tokens >= maxTokens) =>
    /\ requests = <<>>
    /\ pc \in {"stream_call", "failed"}
    /\ pc = "failed" =>
         thrown \in {"API key is required",
                     "max_tokens must be greater than thinking.budget_tokens"}

\* the arguments of the onChunk invocations of the streaming call, in order
deliveredChunks ==
  LET c == SelectSeq(streamCb, LAMBDA e : e.f = "onChunk")
  IN [i \in 1..Len(c) |-> c[i].arg]

\* C13: for an image classified ingredients or menu, the text the analyze
\* request is built from is the in-order concatenation of all chunks of the
\* extraction stream, and the resolved result carries the classifier's
\* imageType and, as result, the parsed value of the analyze reply.
C13_AnalyzesConcatenatedChunks ==
  (entry = "smartAnalyzeImage" /\ typeResult \in {"ingredients", "menu"}) =>
    /\ firstIndex(net, sent("analyze")) > 0 => analyzed = deliveredChunks
    /\ outcome.settled = "resolved" =>
         /\ Len(replies) = 2
         /\ replies[2].stage = "analyze" /\ replies[2].kind = "ok"
         /\ outcome.imageType = typeResultReply.value
         /\ outcome.result = replies[2].value

C13_Witness ==
  /\ smartResolved /\ typeResult = "menu"
  /\ analyzed = <<"a", "b">>
  /\ outcome.imageType = "menu" /\ outcome.result = "object"

\* the message ends with the text of the reason
statesReason(message, reason) ==
  \/ reason = "blurry" /\ message = "cannot recognise the image type. blurry"
  \/ reason = "no food" /\ message = "cannot recognise the image type. no food"

\* C14: when the classifier reports unknown, smartAnalyzeImage is done: it
\* resolved with imageType unknown, result null and an errorMessage that
\* states the reason the classifier gave.
C14_UnknownResolvesWithReason ==
  (entry = "smartAnalyzeImage" /\ typeResult = "unknown") =>
    /\ pc = "done"
    /\ outcome.settled = "resolved"
    /\ outcome.imageType = "unknown"
    /\ outcome.result = "null"
    /\ statesReason(outcome.errorMessage, typeResultReply.reason)

C14_Witness ==
  /\ smartResolved /\ typeResult = "unknown"
  /\ typeResultReply.reason = "no food"
  /\ outcome.errorMessage = "cannot recognise the image type. no food"

\* the endpoint requests of a network log, in order
requestsIn(log) ==
  LET r == SelectSeq(log, LAMBDA e : e.op = "send" /\ e.what # "image")
  IN [i \in 1..Len(r) |-> r[i].what]

\* the requests an invocation sends when it runs alone, by classification
requestsAlone(type) ==
  CASE type \in {"ingredients", "menu"} -> <<"classify", "extract", "analyze">>
    [] type = "food" -> <<"classify", "analyze">>
    [] OTHER -> <<"classify">>

isPrefix(a, b) == Len(a) <= Len(b) /\ SubSeq(b, 1, Len(a)) = a

\* the local variables l are those of an invocation running alone: its text
\* is made of the chunks of its own stream and of all of them, its analyze
\* prompt was built from that text, its requests are those of its own
\* classification, and its result is made of its own replies
runsAlone(l) ==
  /\ l.text = contentBeforeSentinel(
                SubSeq(split(l.received), 1, Len(split(l.received)) - 1))
  /\ (l.typeResult \in {"ingredients", "menu"}
        /\ \E i \in 1..Len(l.net) : l.net[i] = sent("analyze")) => l.analyzed = l.text
  /\ isPrefix(requestsIn(l.net), requestsAlone(l.typeResult))
  /\ l.outcome.settled = "resolved" =>
       /\ requestsIn(l.net) = requestsAlone(l.typeResult)
       /\ l.outcome.confidence = l.replies[1].confidence
       /\ IF l.typeResult \in {"ingredients", "menu", "food"}
            THEN /\ l.outcome.imageType = l.replies[1].value
                 /\ l.outcome.result = l.replies[2].value
            ELSE /\ l.outcome.imageType = "unknown"
                 /\ l.outcome.result = "null"

\* C15: of two concurrent smartAnalyzeImage invocations, under every
\* interleaving of their steps, each behaves as if it ran alone: the text it
\* analyzes is made of the chunks of its own extraction stream only, and its
\* requests and its result are those of its own replies.
C15_InvocationsIndependent ==
  current # 0 => (runsAlone(locals) /\ runsAlone(parked))

C15_Witness ==
  /\ current # 0
  /\ pc = "stream_read" /\ parked.pc = "stream_read"
  /\ text = <<"a">> /\ parked.text = <<"b">>

\* what the message of an error tells
carriesStatus(error) ==
  error \in { "API request failed: <status> <statusText>",
              "API request failed: <status> <statusText>. <errorData.error.message>" }
carriesProviderMessage(error) ==
  error \in { "<errorData.error.message>",
              "API request failed: <status> <statusText>. <errorData.error.message>" }

\* the latest reply a one-shot call received
lastReply == replies[Len(replies)]

\* C16: on a non-2xx response the one-shot call fails with an error that
\* carries the HTTP status, and the provider's message too when the error
\* body holds one.
C16_HttpErrorCarriesStatusAndMessage ==
  (replies # <<>> /\ lastReply.kind \in {"httpStatus", "httpProviderMessage"}) =>
    /\ pc = "failed"
    /\ outcome.settled = "rejected"
    /\ carriesStatus(thrown)
    /\ lastReply.kind = "httpProviderMessage" => carriesProviderMessage(thrown)

\* C17: the one-shot call returns the parsed value exactly when the reply has
\* a content that parses as JSON (the classification is that value, the
\* result of a resolved analysis is that value); it fails with the
\* no-content error when the content is missing (or empty), with the
\* invalid-JSON error when the content does not parse, and a failed call
\* leaves no value behind.
C17_ParsedValueOrFailure ==
  replies # <<>> =>
    /\ lastReply.kind = "ok" =>
         /\ lastReply.stage = "classify" => typeResult = lastReply.value
         /\ lastReply.stage = "analyze" =>
              (outcome.settled = "resolved" /\ outcome.result = lastReply.value)
    /\ lastReply.kind # "ok" =>
         /\ pc = "failed" /\ outcome.settled = "rejected"
         /\ lastReply.stage = "classify" => typeResult = "none"
    /\ lastReply.kind \in {"noContent", "emptyContent"} =>
         thrown = "No content in API response"
    /\ lastReply.kind = "contentNotJson" => thrown = "API response is not valid JSON"
    /\ (typeResult # "none" \/ outcome.settled = "resolved") => replies[1].kind = "ok"
    /\ (outcome.settled = "resolved" /\ caseOf(typeResult) # "default") =>
         lastReply.stage = "analyze"

C17_Witness ==
  /\ Len(replies) = 2
  /\ lastReply.kind = "contentNotJson"
  /\ pc = "failed" /\ thrown = "API response is not valid JSON"
  /\ typeResult = "food"

terminal == pc \in {"done", "failed"}

\* C18: when every request is answered and every stream closes, a
\* smartAnalyzeImage invocation reaches a terminal state; it is Done exactly
\* when its promise is resolved and Failed exactly when it is rejected, the
\* promise is pending until then, and no step is taken from a terminal state.
C18_TerminatesOnce ==
  /\ <>terminal
  /\ [](/\ pc = "done" <=> outcome.settled = "resolved"
        /\ pc = "failed" <=> outcome.settled = "rejected")
  /\ [][~terminal]_vars

C18_Witness ==
  /\ pc = "done" /\ outcome.settled = "resolved"
  /\ requests = <<"classify", "extract", "analyze">>
  /\ nReads > 0

\* the message has text: its content is a string or holds a text part
hasText(message) ==
  message.plain \/ \E i \in 1..Len(message.parts) : message.parts[i] = "text"

\* C19: the messages of every request that smartAnalyzeImage and
\* imageConversation put on the wire end with a user message that has text.
C19_LastMessageIsUserText ==
  (entry \in {"smartAnalyzeImage", "imageConversation"}
     /\ pc \in {"classify_wait", "analyze_wait", "stream_wait"}) =>
    /\ messages # <<>>
    /\ messages[Len(messages)].role = "user"
    /\ hasText(messages[Len(messages)])

\* C20: the confidence of a SmartAnalysisResult is the confidence of the
\* classifier's reply, and the confidence decides nothing: whatever it is,
\* the requests sent are those of the classified type, and a result is
\* returned for ingredients, menu and food and none for any other type.
C20_ConfidencePassedThrough ==
  (entry = "smartAnalyzeImage" /\ typeResult \notin {"none", "null"}) =>
    /\ isPrefix(requests, requestsAlone(typeResult))
    /\ outcome.settled = "resolved" =>
         /\ outcome.confidence = typeResultReply.confidence
         /\ requests = requestsAlone(typeResult)
         /\ outcome.result =
              (IF typeResult \in {"ingredients", "menu", "food"}
                 THEN lastReply.value ELSE "null")

C20_Witness ==
  /\ smartResolved /\ typeResult = "ingredients"
  /\ typeResultReply.confidence = "0.3"
  /\ outcome.confidence = "0.3" /\ outcome.result = "object"

\* the stage whose network operation ended last in the invocation with the
\* local variables l
lastStage(l) == l.net[Len(l.net)].what

\* a transport call of the invocation with the local variables l threw
stageFailed(l) ==
  /\ l.pc = "failed" /\ l.net # <<>>
  /\ l.thrown \notin {"none", "ImageLoadError", "ProgressEvent", "TypeError: typeResult is null"}

\* C21: the error smartAnalyzeImage reports for a failed stage identifies the
\* stage and the image type: two invocations that reject with the same error
\* failed in the same stage, on an image of the same type.
C21_FailureIdentifiesStageAndType ==
  (current # 0 /\ stageFailed(locals) /\ stageFailed(parked)
     /\ outcome.error = parked.outcome.error) =>
    /\ lastStage(locals) = lastStage(parked)
    /\ typeResult = parked.typeResult

\* the media types and the file extensions of the allowed set
AllowedTypes ==
  {"image/jpeg", "image/jpg", "image/png", "image/gif", "image/webp",
   "jpeg", "jpg", "png", "gif", "webp"}

\* the type an image source declares: the media type of a data: URI, the MIME
\* type of a blob, the extension of the path of a URL (in lower case, without
\* the query), "" if it declares none
declaredType(url) ==
  LET path == splitFirst(url, {QuestionMark})
      dot == lastIndexOf(path, Dot)
  IN CASE startsWith(url, DataScheme) \/ startsWith(url, BlobObject) ->
            IF Len(url) >= 2 /\ url[2] \notin Delimiters THEN url[2] ELSE ""
       [] dot # 0 /\ dot < Len(path) -> lowerToken(path[dot + 1])
       [] OTHER -> ""

UnsupportedFormat == "Unsupported image format. Supported formats: JPEG, PNG, GIF, WebP"

\* the encoder accepted the source: the invocation goes on to its request
sourceAccepted == pc \in {"classify_call", "stream_call"}

\* C22: the encoder fails with UnsupportedFormat for exactly the sources
\* whose declared type (media type of a data: URI, file extension, MIME type
\* of a blob) is outside {jpeg, jpg, png, gif, webp}: it accepts no source of
\* another type, and rejects no source of an allowed type as unsupported.
C22_UnsupportedFormatIffNotAllowed ==
  /\ sourceAccepted => declaredType(imageUrl) \in AllowedTypes
  /\ (pc = "failed" /\ thrown = UnsupportedFormat) => declaredType(imageUrl) \notin AllowedTypes

\* C23: an encode issues one fetch when the source is a remote URL and none
\* when it is a data: URI or a blob: the image fetches of an invocation are
\* as many as its encodes of a remote URL, and none otherwise.
C23_OneFetchPerRemoteEncode ==
  countEv(net, sent("image")) =
    (IF startsWith(imageUrl, DataScheme) \/ startsWith(imageUrl, BlobObject) THEN 0 ELSE encodes)

C23_Witness ==
  /\ startsWith(imageUrl, HttpsScheme)
  /\ pc = "classify_wait"
  /\ encodes = 1
  /\ net = <<sent("image"), ended("image"), sent("classify")>>

\* the response to the image fetch was unsuccessful: its body, the error
\* page, is what the encoder read
unsuccessfulResponse ==
  \E i \in 1..Len(encoded) : encoded[i].base64 = <<ErrorPagePayload>>

\* the FileReader could not read the blob
blobUnreadable == thrown = "ProgressEvent"

\* the encoder failed with the error for a source that cannot be loaded, and
\* if it was the encode before the classification, no request was sent
failedUnreadableSource ==
  /\ pc = "failed"
  /\ thrown = "ImageLoadError"
  /\ encodes = 1 => requests = <<>>

\* C24: when the image fetch fails (it is rejected, or its response is
\* unsuccessful) or the blob cannot be read, the encoder fails with the
\* unreadable-source error and no classification request is sent.
C24_UnreadableSourceFailsEncode ==
  /\ unsuccessfulResponse => failedUnreadableSource
  /\ blobUnreadable => failedUnreadableSource

\* the encoder resolved for a data: URI
dataUrlEncoded ==
  /\ entry = "smartAnalyzeImage"
  /\ startsWith(imageUrl, DataScheme)
  /\ encoded # <<>>

\* C25: for every data: URI, the URI assembled from the encoder's output as
\* data:<mimeType>;base64,<payload> is the original URI, and encoding the
\* assembled URI gives the same payload and media type again.
C25_EncodeRoundTrips ==
  dataUrlEncoded =>
    LET image == encoded[1]
        again == dataUrl(image)
    IN /\ again = imageUrl
       /\ convertDataUrl(again) = image

builderInputs(l) ==
  [request |-> requestsIn(l.net)[Len(requestsIn(l.net))], imageType |-> l.typeResult,
   extracted |-> l.analyzed, image |-> l.encoded[Len(l.encoded)]]

\* a prompt builder ran in the invocation with the local variables l
builderRan(l) == requestsIn(l.net) # <<>> /\ l.encoded # <<>>

C28_NoChunkAfterComplete ==
  \A i, j \in 1..Len(streamCb) :
    (i < j /\ streamCb[i].f = "onComplete") => streamCb[j].f # "onChunk"

\* the streaming call returned because the byte stream closed, not at a
\* sentinel
closedWithoutSentinel ==
  /\ streamCallReturned
  /\ ~processLines(linesReceived, <<>>).ret

\* C29: when the byte stream closes without a sentinel, the content of every
\* data: frame received has been delivered to onChunk, the content of a last
\* frame without a newline included.
C29_NoDataDroppedAtClose ==
  closedWithoutSentinel => text = contentBeforeSentinel(split(received))

\* C30: the onChunk and onComplete invocations of a streaming call are those
\* of the lines of the text received, however the text was split into reads:
\* while the stream is read they are the callbacks of the complete lines, the
\* rest of the text waits in the buffer, and a call that returned made the
\* same callbacks, followed by the onComplete of the close if it did not
\* return at a sentinel.
C30_ReadSplitIrrelevant ==
  LET all == split(received)
      r == processLines(SubSeq(all, 1, Len(all) - 1), <<>>)
  IN /\ pc = "stream_read" =>
          (streamCb = r.ev /\ ~r.ret /\ buffer = all[Len(all)])
     /\ streamCallReturned =>
          streamCb = (IF r.ret THEN r.ev ELSE Append(r.ev, completeEv))

C30_Witness ==
  /\ streamCallReturned
  /\ nReads = 2
  /\ received = <<DataPrefix, DeltaA, NL>>
  /\ streamCb = <<chunkEv("a"), completeEv>>

\* callGeminiAPIForJSON or callGeminiAPIForStream rejected
geminiTransportRejected ==
  /\ entry \in {"smartAnalyzeImage", "callGeminiAPIForStream"}
  /\ pc = "failed"
  /\ thrown \notin {"none", "ImageLoadError", "ProgressEvent", "TypeError: typeResult is null"}

\* C31: when callGeminiAPIForJSON or callGeminiAPIForStream rejects, onError
\* has been invoked exactly once, as the last callback, with the error the
\* promise rejects with - also when the credential is missing.
C31_OnErrorBeforeRejection ==
  geminiTransportRejected =>
    /\ countCb(cb, "onError") = 1
    /\ cb[Len(cb)].f = "onError"
    /\ cb[Len(cb)].arg = thrown

\* C32: without a credential (none in the options, none in the environment)
\* smartAnalyzeImage fails without any network operation, the fetch of a
\* remote image included.
C32_NoCredentialNoNetwork ==
  (entry = "smartAnalyzeImage" /\ ~optApiKey /\ ~envApiKey) =>
    /\ net = <<>>
    /\ pc \in {"smart_start", "classify_call", "failed"}

\* C33: in an invocation of smartAnalyzeImage the caller's onComplete is not
\* invoked before the analyze stage has finished, and not at all in an
\* invocation that is rejected.
C33_OnCompleteAfterAnalyze ==
  (entry = "smartAnalyzeImage" /\ countCb(cb, "onComplete") > 0) =>
    /\ firstIndex(net, ended("analyze")) > 0
    /\ outcome.settled # "rejected"

\* C34: an exception thrown by onChunk, or by onComplete at a finish_reason
\* frame, is swallowed like a frame that does not parse: while the stream is
\* read onError is never invoked and the content of every well-formed frame
\* before the sentinel is handed to onChunk, frames after the exception
\* included; the only callback exception that makes the call reject is that
\* of onComplete at the sentinel or at the close of the stream.
C34_CallbackExceptionSwallowed ==
  throwing # {} =>
    /\ deliveredChunks = contentBeforeSentinel(linesReceived)
    /\ pc = "stream_read" => countCb(cb, "onError") = 0
    /\ (pc = "failed" /\ thrown = CallbackError) =>
         /\ "onComplete" \in throwing
         /\ streamCb[Len(streamCb) - 1] = completeEv

C34_Witness ==
  /\ throwing = {"onChunk", "onComplete"}
  /\ pc = "stream_read"
  /\ nReads = 2
  /\ streamCb = <<completeEv, chunkEv("a"), chunkEv("b")>>

\* the four image types of a SmartAnalysisResult
ImageTypes == {"ingredients", "menu", "food", "unknown"}

pipelinePending == pc \notin {"view_mounted", "view_settled", "done", "failed"}

\* the success notice is among the notices shown
successShown ==
  \E i \in 1..Len(view.notices) : view.notices[i] = "success"

\* C36: in the analysis view isAnalyzing is true as long as the promise of
\* smartAnalyzeImage is pending - it is never false while a stage of the
\* pipeline is still to finish - and the success notice is shown only when
\* the promise has resolved with the result.
C36_AnalyzingUntilSettled ==
  /\ pipelinePending => view.isAnalyzing
  /\ successShown => outcome.settled = "resolved"

\* the view has a result to show: a SmartAnalysisResult whose result is there
hasResult(v) ==
  /\ v.analysisResult.settled = "resolved"
  /\ v.analysisResult.result # "null"

\* C37: once performAnalysis has settled, isAnalyzing is false and exactly one
\* of the two holds: errorMessage is non-empty, or analysisResult holds a
\* SmartAnalysisResult whose result is non-null.
C37_SettledShowsErrorOrResult ==
  pc = "view_settled" =>
    /\ ~view.isAnalyzing
    /\ (view.errorMessage # "") <=> ~hasResult(view)

C37_Witness ==
  /\ pc = "view_settled"
  /\ typeResult = "unknown"
  /\ view.analysisResult = outcome
  /\ view.errorMessage = "cannot recognise the image type. blurry"
  /\ ~view.isAnalyzing

\* the number of image parts of a message, and of a sequence of messages
RECURSIVE imageParts(_)
imageParts(parts) ==
  IF parts = <<>> THEN 0
  ELSE (IF Head(parts) = "image_url" THEN 1 ELSE 0) + imageParts(Tail(parts))

RECURSIVE imagePartsIn(_)
imagePartsIn(history) ==
  IF history = <<>> THEN 0
  ELSE (IF Head(history).plain THEN 0 ELSE imageParts(Head(history).parts))
         + imagePartsIn(Tail(history))

\* C38: the request imageConversation sends carries every image the caller
\* passed as an image part, next to the image parts the conversation had,
\* whatever the role of the last message of the conversation.
C38_EveryImageSent ==
  (entry = "imageConversation" /\ pc = "stream_wait") =>
    imagePartsIn(messages) = imagePartsIn(passedHistory) + Len(imageSources)

\* C39: when imageConversation has settled, the caller's conversationHistory
\* is what it was when it was passed: the same messages with the same content.
C39_HistoryUnchanged ==
  (entry = "imageConversation" /\ outcome.settled # "pending") =>
    conversationHistory = passedHistory

====
